---- MODULE Spec2Model ----
(***************************************************************************)
(* SpeechRecognitionManager (speechBOt/js/speech-recognition.js): a        *)
(* session over the browser's continuous speech recognition engine that    *)
(* keeps word / filler / vocabulary counters and notifies its caller.      *)
(*                                                                         *)
(* Strings are sequences of one-character strings.  A handler of the       *)
(* session runs to completion at one reading of the clock.                 *)
(***************************************************************************)
EXTENDS Integers, Sequences, FiniteSets, TLC

\* ------------------------------------------------------------------ bounds
\* Clock readings (Date.now(), in ms): Epoch, Epoch + TickMs, ...
Epoch == 1000
TickMs == 30000
MaxTicks == 1
\* Longest results list of one result event.
MaxResults == 2
\* Final fragments processed over one run.
MaxFinals == 2

\* ------------------------------------------------------- characters, text
LowerSeq ==
  <<"a","b","c","d","e","f","g","h","i","j","k","l","m",
    "n","o","p","q","r","s","t","u","v","w","x","y","z">>
UpperSeq ==
  <<"A","B","C","D","E","F","G","H","I","J","K","L","M",
    "N","O","P","Q","R","S","T","U","V","W","X","Y","Z">>
Digits == {"0","1","2","3","4","5","6","7","8","9"}
Range(s) == {s[i] : i \in DOMAIN s}

\* \s of a JavaScript regular expression (the members that occur here).
WhiteSpace == {" ", "\t", "\n"}
\* \w of a JavaScript regular expression: [A-Za-z0-9_].
IsWordChar(c) == c \in Range(LowerSeq) \cup Range(UpperSeq) \cup Digits \cup {"_"}

\* String.prototype.toLowerCase, one character.
LowerChar(c) ==
  IF c \in Range(UpperSeq)
    THEN LowerSeq[CHOOSE i \in DOMAIN UpperSeq : UpperSeq[i] = c]
    ELSE c
toLowerCase(s) == [i \in DOMAIN s |-> LowerChar(s[i])]

\* String.prototype.trim.
RECURSIVE TrimLeft(_)
TrimLeft(s) ==
  IF s # <<>> /\ Head(s) \in WhiteSpace THEN TrimLeft(Tail(s)) ELSE s
RECURSIVE TrimRight(_)
TrimRight(s) ==
  IF s # <<>> /\ s[Len(s)] \in WhiteSpace
    THEN TrimRight(SubSeq(s, 1, Len(s) - 1))
    ELSE s
trim(s) == TrimRight(TrimLeft(s))

\* String.prototype.split(/\s+/): cur is the piece being read; a run of
\* white space closes it; the last piece is always delivered, so the empty
\* string splits into one empty piece.
RECURSIVE SplitFrom(_, _, _)
SplitFrom(s, i, cur) ==
  IF i > Len(s) THEN <<cur>>
  ELSE IF s[i] \in WhiteSpace
    THEN IF i > 1 /\ s[i - 1] \in WhiteSpace
           THEN SplitFrom(s, i + 1, cur)
           ELSE <<cur>> \o SplitFrom(s, i + 1, <<>>)
    ELSE SplitFrom(s, i + 1, Append(cur, s[i]))
split(s) == SplitFrom(s, 1, <<>>)

\* word.replace(/[^\w\s]|_/g, ""): drops every character that is neither a
\* word character nor white space, and every underscore.
Removed(c) == (~IsWordChar(c) /\ c \notin WhiteSpace) \/ c = "_"
cleanWord(word) == SelectSeq(word, LAMBDA c : ~Removed(c))

\* \b at position q of text (between text[q-1] and text[q]).
WordAt(text, q) == q >= 1 /\ q <= Len(text) /\ IsWordChar(text[q])
Boundary(text, q) == WordAt(text, q - 1) # WordAt(text, q)

\* Mutant: the phrase matches inside a longer word as well.
MatchAt_Anywhere(text, p, fillerWord) ==
  /\ p + Len(fillerWord) - 1 <= Len(text)
  /\ \A k \in DOMAIN fillerWord :
       LowerChar(text[p + k - 1]) = LowerChar(fillerWord[k])
\* new RegExp('\\b' + fillerWord + '\\b', 'gi') matches at position p.
MatchAt(text, p, fillerWord) ==
  /\ p + Len(fillerWord) - 1 <= Len(text)
  /\ \A k \in DOMAIN fillerWord :
       LowerChar(text[p + k - 1]) = LowerChar(fillerWord[k])
  /\ Boundary(text, p)
  /\ Boundary(text, p + Len(fillerWord))

\* transcript.match(regex) with the g flag: the matches found left to right,
\* each search resuming after the previous match.
RECURSIVE MatchesFrom(_, _, _)
MatchesFrom(text, p, fillerWord) ==
  IF p > Len(text) THEN 0
  ELSE IF MatchAt(text, p, fillerWord)
    THEN 1 + MatchesFrom(text, p + Len(fillerWord), fillerWord)
    ELSE MatchesFrom(text, p + 1, fillerWord)
MatchCount(text, fillerWord) == MatchesFrom(text, 1, fillerWord)

fillerWords ==
  << <<"u","m">>, <<"u","h">>, <<"l","i","k","e">>,
     <<"y","o","u"," ","k","n","o","w">>,
     <<"a","c","t","u","a","l","l","y">>,
     <<"b","a","s","i","c","a","l","l","y">>,
     <<"l","i","t","e","r","a","l","l","y">>,
     <<"s","o","r","t"," ","o","f">>,
     <<"k","i","n","d"," ","o","f">> >>

RECURSIVE FillersFrom(_, _)
FillersFrom(transcript, k) ==
  IF k > Len(fillerWords) THEN 0
  ELSE MatchCount(transcript, fillerWords[k]) + FillersFrom(transcript, k + 1)
\* The fillerWords.forEach loop: what one transcript adds to fillerWordCount.
FillerMatches(transcript) == FillersFrom(transcript, 1)

\* const words = transcript.trim().toLowerCase().split(/\s+/)
Words(transcript) == split(toLowerCase(trim(transcript)))

\* The words.forEach loop: the cleaned words that are added to uniqueWords.
CleanWords(words) ==
  {cleanWord(words[i]) : i \in DOMAIN words} \ {<<>>}


\* ------------------------------------------------------------------ inputs
\* Fragment texts the engine delivers: "Um, um" and "hi -".
TextUm == <<"U","m",","," ","u","m">>
TextHi == <<"h","i"," ","-">>
Texts == {TextUm, TextHi}
\* event.results[i]: [0].transcript and isFinal.
Fragment == [transcript : Texts, isFinal : BOOLEAN]
RECURSIVE SeqsUpTo(_, _)
SeqsUpTo(S, n) ==
  IF n = 0 THEN {<<>>}
  ELSE LET shorter == SeqsUpTo(S, n - 1)
       IN shorter \cup {Append(q, x) : q \in shorter, x \in S}
\* A result event: the results list and resultIndex, the lowest index that
\* changed; the results below it are settled, that is final, and at least
\* one result is delivered.
Events ==
  {e \in [results : SeqsUpTo(Fragment, MaxResults),
          resultIndex : 0 .. MaxResults - 1] :
     /\ e.resultIndex < Len(e.results)
     /\ \A i \in 1 .. e.resultIndex : e.results[i].isFinal}
\* Fragment texts for the filler and pace checks.
\* "um I think this is like really great"
TextThink ==
  <<"u","m"," ","I"," ","t","h","i","n","k"," ","t","h","i","s"," ","i",
    "s"," ","l","i","k","e"," ","r","e","a","l","l","y"," ","g","r","e",
    "a","t">>
\* "you know"
TextYouKnow ==
  <<"y","o","u"," ","k","n","o","w">>
\* "Kind of, LIKE"
TextKindOf ==
  <<"K","i","n","d"," ","o","f",","," ","L","I","K","E">>
\* "umbrella likes"
TextUmbrella ==
  <<"u","m","b","r","e","l","l","a"," ","l","i","k","e","s">>
\* "uh um_"
TextUh ==
  <<"u","h"," ","u","m","_">>
Phrases == {TextThink, TextYouKnow, TextKindOf, TextUmbrella, TextUh}
\* The result events that carry one final fragment, a phrase.
PhraseEvents ==
  {[results |-> <<[transcript |-> t, isFinal |-> TRUE]>>, resultIndex |-> 0] :
     t \in Phrases}
\* The handlers a caller registers; NoHandler is null.
NoHandler == "null"
Handlers == {"A"}

\* ------------------------------------------------------------------- state
VARIABLES
  recognition,        \* this.recognition: "undefined", or the engine's state
  isRecording, transcriptText, startTime,
  wordCount, fillerWordCount, uniqueWords,
  onTranscriptUpdate, onAnalyticsUpdate,
  now,                \* Date.now()
  lastOp,             \* the operation or event handled last
  caught,             \* it caught an exception of the engine
  out,                \* the notifications it delivered, in order
  requests,           \* the engine requests it issued, in order
  lastEvent,          \* the result event it handled, if it was one
  allFinals,          \* texts of the final fragments processed so far
  sessFrom,           \* Len(allFinals) at the last accepted start()
  sessFinalEmits,     \* isFinal=true notifications delivered since then
  startedAt,          \* clock reading at the last accepted start()
  stopCalls,          \* stop() calls since the last start(): 0, 1, 2 = more
  restarts            \* engine restarts since the last start(): 0, 1, 2 = more

session == <<isRecording, transcriptText, startTime,
             wordCount, fillerWordCount, uniqueWords>>
counters == <<wordCount, fillerWordCount, uniqueWords>>
callbacks == <<onTranscriptUpdate, onAnalyticsUpdate>>
history == <<allFinals, sessFrom, sessFinalEmits, startedAt, stopCalls,
             restarts>>
vars == <<recognition, session, callbacks, now, lastOp, caught, out,
          requests, lastEvent, history>>

\* startTime = null
Null == -1
NoEvent == [results |-> <<>>, resultIndex |-> 0]
Bump(n) == IF n < 2 THEN n + 1 ELSE n

\* constructor: without a recognition capability it returns before any
\* field is assigned (the fields then stay unassigned and are never used);
\* otherwise the engine is created, not started.
Init ==
  /\ recognition \in {"undefined", "idle"}
  /\ isRecording = FALSE
  /\ transcriptText = <<>>
  /\ startTime = Null
  /\ wordCount = 0
  /\ fillerWordCount = 0
  /\ uniqueWords = {}
  /\ onTranscriptUpdate = NoHandler
  /\ onAnalyticsUpdate = NoHandler
  /\ now = Epoch
  /\ lastOp = "new"
  /\ caught = FALSE
  /\ out = <<>>
  /\ requests = <<>>
  /\ lastEvent = NoEvent
  /\ allFinals = <<>>
  /\ sessFrom = 0
  /\ sessFinalEmits = 0
  /\ startedAt = Null
  /\ stopCalls = 0
  /\ restarts = 0

\* ---------------------------------------------------------------- analytics
\* Math.round(p / q) for p >= 0, q > 0.
Round(p, q) == (2 * p + q) \div (2 * q)
Infinity == -1
NaN == -2
\* Mutant: the duration is taken in seconds, not in minutes.
Wpm_PerSecond(wc, elapsedMs) ==
  IF elapsedMs = 0 THEN (IF wc = 0 THEN NaN ELSE Infinity)
  ELSE Round(wc * 1000, elapsedMs)
\* Math.round(wordCount / duration), duration = elapsedMs / 1000 / 60.
Wpm(wc, elapsedMs) ==
  IF elapsedMs = 0 THEN (IF wc = 0 THEN NaN ELSE Infinity)
  ELSE Round(wc * 60000, elapsedMs)
\* Math.round(duration * 60)
Seconds(elapsedMs) == Round(elapsedMs, 1000)
\* uniqueWords.size / wordCount || 0, as the fraction num/den; 0/0 is NaN,
\* which || turns into 0; n/0 with n > 0 is Infinity, written 1/0.
VocabularyDiversity(size, wc) ==
  IF wc = 0
    THEN (IF size = 0 THEN [num |-> 0, den |-> 1] ELSE [num |-> 1, den |-> 0])
    ELSE [num |-> size, den |-> wc]
\* Date.now() - this.startTime; null counts as 0.
Elapsed == now - (IF startTime = Null THEN 0 ELSE startTime)
\* The analytics object built in onend and in _processTranscript.
Analytics(st) ==
  [fillerWordCount |-> st.fillerWordCount,
   vocabularyDiversity |->
     VocabularyDiversity(Cardinality(st.uniqueWords), st.wordCount),
   wpm |-> Wpm(st.wordCount, Elapsed),
   duration |-> Seconds(Elapsed)]
\* if (this.onAnalyticsUpdate) this.onAnalyticsUpdate(analytics, isFinal)
AnalyticsNote(st, final) ==
  IF onAnalyticsUpdate = NoHandler THEN <<>>
  ELSE <<[kind |-> "analytics", to |-> onAnalyticsUpdate,
          analytics |-> Analytics(st), isFinal |-> final]>>
\* if (this.onTranscriptUpdate) this.onTranscriptUpdate(final, interim)
TranscriptNote(finalTranscript, interimTranscript) ==
  IF onTranscriptUpdate = NoHandler THEN <<>>
  ELSE <<[kind |-> "transcript", to |-> onTranscriptUpdate,
          finalTranscript |-> finalTranscript,
          interimTranscript |-> interimTranscript]>>

\* The counters as _processTranscript and the onresult loop carry them.
Counters ==
  [wordCount |-> wordCount, fillerWordCount |-> fillerWordCount,
   uniqueWords |-> uniqueWords, out |-> <<>>,
   finalTranscript |-> <<>>, interimTranscript |-> <<>>]

\* Mutant: the words are added as they are, punctuation included.
AddUnique_Raw(set, words) == set \cup (Range(words) \ {<<>>})
\* Mutant: the set is replaced by the words of the last transcript.
AddUnique_Replace(set, words) == CleanWords(words)
\* uniqueWords after the words.forEach loop.
AddUnique(set, words) == set \cup CleanWords(words)

\* Words and FillerMatches of the texts that occur, computed once.
WordsOf == [t \in Texts \cup Phrases |-> Words(t)]
FillersOf == [t \in Texts \cup Phrases |-> FillerMatches(t)]

\* Mutant: no analytics while no time has elapsed.
HasStartTime_Elapsed == startTime # Null /\ now > startTime
\* if (this.startTime)
HasStartTime == startTime # Null /\ startTime # 0

\* Mutant: the snapshot is taken before the transcript is accounted.
ProcessTranscript_Before(st, transcript) ==
  LET words == WordsOf[transcript]
      counted == [st EXCEPT
        !.wordCount = @ + Len(words),
        !.uniqueWords = AddUnique(@, words),
        !.fillerWordCount = @ + FillersOf[transcript]]
  IN IF HasStartTime
       THEN [counted EXCEPT !.out = @ \o AnalyticsNote(st, FALSE)]
       ELSE counted
\* Mutant: a transcript is accounted only while the flag is set.
ProcessTranscript_Active(st, transcript) ==
  LET words == WordsOf[transcript]
      counted == [st EXCEPT
        !.wordCount = @ + Len(words),
        !.uniqueWords = AddUnique(@, words),
        !.fillerWordCount = @ + FillersOf[transcript]]
  IN IF ~isRecording THEN st
     ELSE IF HasStartTime
       THEN [counted EXCEPT !.out = @ \o AnalyticsNote(counted, FALSE)]
       ELSE counted
\* _processTranscript(transcript)
ProcessTranscript(st, transcript) ==
  LET words == WordsOf[transcript]
      counted == [st EXCEPT
        !.wordCount = @ + Len(words),
        !.uniqueWords = AddUnique(@, words),
        !.fillerWordCount = @ + FillersOf[transcript]]
  IN IF HasStartTime
       THEN [counted EXCEPT !.out = @ \o AnalyticsNote(counted, FALSE)]
       ELSE counted

\* Mutant: the loop accounts every fragment, interim ones included.
RECURSIVE ResultLoop_AllCounted(_, _, _)
ResultLoop_AllCounted(st, results, i) ==
  IF i >= Len(results) THEN st
  ELSE LET transcript == results[i + 1].transcript
       IN IF results[i + 1].isFinal
            THEN ResultLoop_AllCounted(
                   [ProcessTranscript(st, transcript) EXCEPT
                      !.finalTranscript = @ \o transcript],
                   results, i + 1)
            ELSE ResultLoop_AllCounted(
                   [ProcessTranscript(st, transcript) EXCEPT
                      !.interimTranscript = @ \o transcript],
                   results, i + 1)
\* The for loop of onresult, from index i (0-based) to results.length - 1.
RECURSIVE ResultLoop(_, _, _)
ResultLoop(st, results, i) ==
  IF i >= Len(results) THEN st
  ELSE LET transcript == results[i + 1].transcript
       IN IF results[i + 1].isFinal
            THEN ResultLoop(
                   [ProcessTranscript(st, transcript) EXCEPT
                      !.finalTranscript = @ \o transcript],
                   results, i + 1)
            ELSE ResultLoop(
                   [st EXCEPT !.interimTranscript = @ \o transcript],
                   results, i + 1)

\* The fragments an event delivers: results[resultIndex ..].
Batch(event) == SubSeq(event.results, event.resultIndex + 1, Len(event.results))
FinalsOf(frags) == SelectSeq(frags, LAMBDA f : f.isFinal)
InterimsOf(frags) == SelectSeq(frags, LAMBDA f : ~f.isFinal)
TextsOf(frags) == [i \in DOMAIN frags |-> frags[i].transcript]
RECURSIVE Concat(_)
Concat(texts) == IF texts = <<>> THEN <<>> ELSE Head(texts) \o Concat(Tail(texts))
AnalyticsIn(notes) == SelectSeq(notes, LAMBDA n : n.kind = "analytics")
TranscriptsIn(notes) == SelectSeq(notes, LAMBDA n : n.kind = "transcript")

\* ------------------------------------------------------------------ engine
\* recognition.start() throws InvalidStateError unless the engine is idle.
StartThrows(engine) == engine # "idle"
\* recognition.stop(): a started engine begins to halt; otherwise nothing.
EngineStop(engine) == IF engine = "started" THEN "stopping" ELSE engine
\* The engine delivers events from start() until its end event.
EngineLive == recognition \in {"started", "stopping"}

\* ----------------------------------------------------------------- actions
Quiet == out' = <<>> /\ lastEvent' = NoEvent

\* Mutant: the capability check is missing.
Inert_Unchecked == FALSE
\* if (!this.recognition) return;
Inert == recognition = "undefined"

\* start(): the assignments that follow recognition.start() inside the try
\* run unless it throws.
\* Mutant: the reset of the analytics is forgotten.
StartResets_Forgotten(threw) == FALSE
StartResets(threw) == ~threw
\* start()
Start ==
  /\ lastOp' = "start"
  /\ Quiet
  /\ UNCHANGED <<callbacks, now, transcriptText, allFinals>>
  /\ IF Inert
       THEN /\ requests' = <<>>
            /\ caught' = FALSE
            /\ UNCHANGED <<recognition, isRecording, startTime, counters,
                           sessFrom, sessFinalEmits, startedAt, stopCalls,
                           restarts>>
       ELSE /\ isRecording' = TRUE
            /\ requests' = <<"start">>
            /\ caught' = StartThrows(recognition)
            /\ recognition' =
                 IF StartThrows(recognition) THEN recognition ELSE "started"
            /\ stopCalls' = 0
            /\ restarts' = 0
            /\ IF StartThrows(recognition)
                 THEN UNCHANGED <<sessFrom, sessFinalEmits, startedAt>>
                 ELSE /\ sessFrom' = Len(allFinals)
                      /\ sessFinalEmits' = 0
                      /\ startedAt' = now
            /\ IF StartResets(StartThrows(recognition))
                 THEN /\ startTime' = now
                      /\ wordCount' = 0
                      /\ fillerWordCount' = 0
                      /\ uniqueWords' = {}
                 ELSE UNCHANGED <<startTime, counters>>

\* Mutant: stop() toggles the flag.
StopBody_Toggles ==
  /\ isRecording' = ~isRecording
  /\ requests' = <<"stop">>
  /\ caught' = FALSE
  /\ stopCalls' = Bump(stopCalls)
  /\ Quiet
  /\ UNCHANGED <<callbacks, now, transcriptText, startTime, counters,
                 allFinals, sessFrom, sessFinalEmits, startedAt, restarts>>
\* The body of stop() past the capability check; onerror runs it as well.
StopBody ==
  /\ isRecording' = FALSE
  /\ requests' = <<"stop">>
  /\ caught' = FALSE
  /\ stopCalls' = Bump(stopCalls)
  /\ Quiet
  /\ UNCHANGED <<callbacks, now, transcriptText, startTime, counters,
                 allFinals, sessFrom, sessFinalEmits, startedAt, restarts>>

\* stop()
Stop ==
  /\ lastOp' = "stop"
  /\ IF Inert
       THEN /\ requests' = <<>>
            /\ caught' = FALSE
            /\ Quiet
            /\ UNCHANGED <<recognition, session, callbacks, now, history>>
       ELSE /\ StopBody
            /\ recognition' = EngineStop(recognition)

\* Mutant: the error is logged and nothing else.
Error_Ignored ==
  /\ EngineLive
  /\ lastOp' = "error"
  /\ recognition' = "stopping"
  /\ requests' = <<>>
  /\ caught' = FALSE
  /\ Quiet
  /\ UNCHANGED <<session, callbacks, now, history>>
\* recognition.onerror: the engine reports an error and is going to end.
Error ==
  /\ EngineLive
  /\ lastOp' = "error"
  /\ StopBody
  /\ recognition' = "stopping"

\* Mutant: the restart is given up after the first one.
EndRestarts_Once == isRecording /\ restarts < 1
\* Mutant: a halt the session asked for is never answered by a restart.
EndRestarts_Unstopped == isRecording /\ recognition # "stopping"
\* recognition.onend: if (this.isRecording) restart, else final analytics.
EndRestarts == isRecording
\* Mutant: the restart stamps a new start time, as start() does.
EndStartTime_Restamped == IF isRecording THEN now ELSE startTime
\* Mutant: the restart forgets the start time.
EndStartTime_Cleared == IF isRecording THEN Null ELSE startTime
\* startTime after onend: it is not assigned.
EndStartTime == startTime
\* recognition.onend: the engine has ended and is idle when the handler runs.
End ==
  /\ EngineLive
  /\ lastOp' = "end"
  /\ caught' = FALSE
  /\ lastEvent' = NoEvent
  /\ startTime' = EndStartTime
  /\ UNCHANGED <<isRecording, transcriptText, counters, callbacks, now,
                 allFinals, sessFrom, startedAt, stopCalls>>
  /\ IF EndRestarts
       THEN /\ ~StartThrows("idle")
            /\ recognition' = "started"
            /\ requests' = <<"start">>
            /\ out' = <<>>
            /\ restarts' = Bump(restarts)
            /\ UNCHANGED sessFinalEmits
       ELSE /\ recognition' = "idle"
            /\ requests' = <<>>
            /\ out' = AnalyticsNote(Counters, TRUE)
            /\ sessFinalEmits' =
                 IF AnalyticsNote(Counters, TRUE) = <<>>
                   THEN sessFinalEmits ELSE Bump(sessFinalEmits)
            /\ UNCHANGED restarts

\* this.transcriptText = finalTranscript
NewTranscriptText(old, finalTranscript) == finalTranscript
\* Mutant: the loop starts at the first result.
LoopStart_Zero(event) == 0
\* The index the for loop of onresult starts at.
LoopStart(event) == event.resultIndex

\* recognition.onresult(event)
Result(event) ==
  /\ EngineLive
  /\ Len(allFinals) + Len(FinalsOf(Batch(event))) <= MaxFinals
  /\ lastOp' = "result"
  /\ caught' = FALSE
  /\ requests' = <<>>
  /\ lastEvent' = event
  /\ \E r \in {ResultLoop(Counters, event.results, LoopStart(event))} :
        /\ wordCount' = r.wordCount
        /\ fillerWordCount' = r.fillerWordCount
        /\ uniqueWords' = r.uniqueWords
        /\ transcriptText' = NewTranscriptText(transcriptText, r.finalTranscript)
        /\ out' = r.out \o TranscriptNote(r.finalTranscript, r.interimTranscript)
  /\ allFinals' = allFinals \o TextsOf(FinalsOf(Batch(event)))
  /\ UNCHANGED <<recognition, isRecording, startTime, callbacks, now,
                 sessFrom, sessFinalEmits, startedAt, stopCalls, restarts>>

\* The engine fires a result event, one of events.
OnResult(events) == \E event \in events : Result(event)
\* The result events that carry one result.
SingleEvents == {e \in Events : Len(e.results) = 1}

\* setTranscriptUpdateCallback(callback)
SetTranscriptUpdateCallback(callback) ==
  /\ onTranscriptUpdate' = callback
  /\ lastOp' = "setTranscriptUpdateCallback"
  /\ caught' = FALSE
  /\ requests' = <<>>
  /\ Quiet
  /\ UNCHANGED <<recognition, session, onAnalyticsUpdate, now, history>>

\* Mutant: a handler, once registered, is kept.
SetAnalyticsUpdateCallback_Keeps(callback) ==
  /\ onAnalyticsUpdate' =
       IF onAnalyticsUpdate = NoHandler THEN callback ELSE onAnalyticsUpdate
  /\ lastOp' = "setAnalyticsUpdateCallback"
  /\ caught' = FALSE
  /\ requests' = <<>>
  /\ Quiet
  /\ UNCHANGED <<recognition, session, onTranscriptUpdate, now, history>>
\* setAnalyticsUpdateCallback(callback)
SetAnalyticsUpdateCallback(callback) ==
  /\ onAnalyticsUpdate' = callback
  /\ lastOp' = "setAnalyticsUpdateCallback"
  /\ caught' = FALSE
  /\ requests' = <<>>
  /\ Quiet
  /\ UNCHANGED <<recognition, session, onTranscriptUpdate, now, history>>

\* Time passes between two handlers.
Tick ==
  /\ now < Epoch + MaxTicks * TickMs
  /\ now' = now + TickMs
  /\ lastOp' = "tick"
  /\ caught' = FALSE
  /\ requests' = <<>>
  /\ Quiet
  /\ UNCHANGED <<recognition, session, callbacks, history>>

\* getTranscript()
getTranscript == transcriptText
\* isListening()
isListening == isRecording

\* The session over time: every operation and event, the clock advancing,
\* the engine delivering one result per event.
Next ==
  \/ Start
  \/ Stop
  \/ OnResult(SingleEvents)
  \/ Error
  \/ End
  \/ \E callback \in Handlers \cup {NoHandler} :
       SetTranscriptUpdateCallback(callback)
  \/ \E callback \in Handlers \cup {NoHandler} :
       SetAnalyticsUpdateCallback(callback)
  \/ Tick

Spec == Init /\ [][Next]_vars

\* The session under result events of up to MaxResults results: every
\* operation and event, all within one reading of the clock.
NextBatch ==
  \/ Start
  \/ Stop
  \/ OnResult(Events)
  \/ Error
  \/ End
  \/ \E callback \in Handlers \cup {NoHandler} :
       SetTranscriptUpdateCallback(callback)
  \/ \E callback \in Handlers \cup {NoHandler} :
       SetAnalyticsUpdateCallback(callback)

SpecBatch == Init /\ [][NextBatch]_vars

\* The session of a caller that listens for analytics, under single final
\* fragments drawn from Phrases, the clock advancing.
NextPhrases ==
  \/ Start
  \/ Stop
  \/ OnResult(PhraseEvents)
  \/ End
  \/ SetAnalyticsUpdateCallback("A")
  \/ Tick

SpecPhrases == Init /\ [][NextPhrases]_vars

\* The session of a caller that registers, for each kind of notification,
\* first handler A and later handler B in its place.
NextHandlers ==
  \/ Start
  \/ Stop
  \/ OnResult(SingleEvents)
  \/ End
  \/ onTranscriptUpdate = NoHandler /\ SetTranscriptUpdateCallback("A")
  \/ onTranscriptUpdate = "A" /\ SetTranscriptUpdateCallback("B")
  \/ onAnalyticsUpdate = NoHandler /\ SetAnalyticsUpdateCallback("A")
  \/ onAnalyticsUpdate = "A" /\ SetAnalyticsUpdateCallback("B")

SpecHandlers == Init /\ [][NextHandlers]_vars

TypeOK ==
  /\ recognition \in {"undefined", "idle", "started", "stopping"}
  /\ isRecording \in BOOLEAN
  /\ wordCount \in Nat /\ fillerWordCount \in Nat
  /\ startTime \in {Null} \cup Nat
  /\ onTranscriptUpdate \in Handlers \cup {"B", NoHandler}
  /\ onAnalyticsUpdate \in Handlers \cup {"B", NoHandler}

\* ------------------------------------------------------------------ claims
Capable == recognition # "undefined"
ZeroCounters == wordCount = 0 /\ fillerWordCount = 0 /\ uniqueWords = {}
Grown ==
  /\ wordCount' >= wordCount
  /\ fillerWordCount' >= fillerWordCount
  /\ uniqueWords \subseteq uniqueWords'
\* The final fragments processed since the last accepted start().
SessFinals == SubSeq(allFinals, sessFrom + 1, Len(allFinals))
RECURSIVE TokenCount(_)
TokenCount(texts) ==
  IF texts = <<>> THEN 0 ELSE Len(Words(Head(texts))) + TokenCount(Tail(texts))
NormalizedTokens(texts) ==
  UNION {CleanWords(Words(texts[i])) : i \in DOMAIN texts}
FinalNotes == SelectSeq(AnalyticsIn(out), LAMBDA n : n.isFinal)
InterimNotes == SelectSeq(AnalyticsIn(out), LAMBDA n : ~n.isFinal)

\* C1 as stated: in the state right after any start() of a session with a
\* recognition capability the counters are zero, the vocabulary is empty
\* and the flag is true, also when the engine rejected the request.
C1_AsClaimed ==
  (lastOp = "start" /\ Capable) => (ZeroCounters /\ isRecording)

\* C1 amended: every start() of a session with a recognition capability
\* leaves the flag true; one whose request the engine accepts leaves the
\* counters zero and the vocabulary empty; one whose request the engine
\* rejects leaves the counters and the vocabulary as they were.
C1_Start ==
  [][(lastOp' = "start" /\ Capable) =>
       /\ isRecording'
       /\ IF caught' THEN UNCHANGED counters ELSE ZeroCounters']_vars
\* An accepted start() after a session that processed final fragments.
C1_Witness ==
  /\ lastOp = "start" /\ ~caught /\ recognition = "started"
  /\ sessFrom > 0 /\ ZeroCounters /\ isRecording

\* C2: getTranscript() is the concatenation, in arrival order, of the texts
\* of all final fragments processed so far, over all result events.
C2_AsClaimed == getTranscript = Concat(allFinals)

\* C3: a halt event that finds the flag false (stop() was called) delivers,
\* to the registered analytics handler, exactly one notification, with
\* isFinal = true and the only one of its session; it requests no restart;
\* its elapsed time runs from the clock reading of the start() that stamped
\* the session to the halt event, whatever restarts happened in between.
C3_FinalOnHalt ==
  (lastOp = "end" /\ ~isRecording /\ onAnalyticsUpdate # NoHandler) =>
    /\ Len(out) = 1
    /\ out[1].kind = "analytics" /\ out[1].isFinal
    /\ sessFinalEmits = 1
    /\ requests = <<>> /\ recognition = "idle"
    /\ out[1].analytics.duration = Seconds(now - startedAt)
    /\ out[1].analytics.wpm = Wpm(wordCount, now - startedAt)
\* A final notification after a restart, some time after the start().
C3_Witness ==
  /\ lastOp = "end" /\ ~isRecording /\ stopCalls = 1 /\ restarts >= 1
  /\ Len(out) = 1 /\ out[1].isFinal
  /\ out[1].analytics.duration = 30

\* C4: a halt event that finds the flag true re-issues the engine's start
\* request and delivers no notification, however many restarts preceded.
C4_AutoRestart ==
  (lastOp = "end" /\ isRecording) =>
    /\ requests = <<"start">> /\ recognition = "started"
    /\ out = <<>>
\* The restart after at least one earlier restart of the same session.
C4_Witness ==
  /\ lastOp = "end" /\ isRecording /\ restarts = 2
  /\ requests = <<"start">> /\ onAnalyticsUpdate # NoHandler

\* C5: every stop() leaves the flag false (a second one changes nothing)
\* and delivers no notification; isFinal = true notifications come from
\* the halt handler only, at most one per session, and exactly one from
\* the halt that follows two stop() calls.
C5_StopIdempotent ==
  /\ lastOp = "stop" => (~isRecording /\ out = <<>>)
  /\ FinalNotes # <<>> => lastOp = "end"
  /\ sessFinalEmits <= 1
  /\ (lastOp = "end" /\ ~isRecording /\ stopCalls = 2
        /\ onAnalyticsUpdate # NoHandler) =>
       (Len(FinalNotes) = 1 /\ sessFinalEmits = 1)
\* The halt after two stop() calls, with its one final notification.
C5_Witness ==
  /\ lastOp = "end" /\ ~isRecording /\ stopCalls = 2
  /\ Len(FinalNotes) = 1 /\ sessFinalEmits = 1

\* C6 as stated: every start() of a session with a recognition capability
\* resets the counters and the vocabulary, and no other step lowers them.
C6_AsClaimed ==
  [][IF lastOp' = "start" /\ Capable THEN ZeroCounters' ELSE Grown]_vars

\* C6 amended: every start() whose request the engine accepts resets the
\* counters and the vocabulary; a result event never lowers them; every
\* other step, a rejected start() included, leaves them as they are.
C6_Monotone ==
  [][IF lastOp' = "start" /\ Capable /\ ~caught' THEN ZeroCounters'
     ELSE IF lastOp' = "result" THEN Grown
     ELSE UNCHANGED counters]_vars
\* Two final fragments with different words counted in one session.
C6_Witness ==
  /\ lastOp = "result" /\ wordCount = 4 /\ Cardinality(uniqueWords) = 2
  /\ fillerWordCount = 2

\* C7: a result event delivers, to the registered analytics handler, one
\* isFinal = false notification per final fragment it processes and no
\* other analytics notification; the halt that follows stop() delivers
\* one isFinal = true notification; once that one is delivered the engine
\* is idle, so no isFinal = false notification of the session follows it.
C7_OncePerFinal ==
  /\ (lastOp = "result" /\ onAnalyticsUpdate # NoHandler) =>
       /\ Len(InterimNotes) = Len(FinalsOf(Batch(lastEvent)))
       /\ FinalNotes = <<>>
  /\ lastOp \notin {"result", "end"} => out = <<>>
  /\ lastOp = "end" => InterimNotes = <<>>
  /\ (lastOp = "end" /\ ~isRecording /\ onAnalyticsUpdate # NoHandler) =>
       (Len(FinalNotes) = 1 /\ sessFinalEmits = 1)
  /\ sessFinalEmits <= 1
  /\ sessFinalEmits = 1 => (recognition = "idle" /\ ~isRecording)
\* One result event with two final fragments and two notifications.
C7_Witness ==
  /\ lastOp = "result" /\ Len(InterimNotes) = 2
  /\ Len(FinalsOf(Batch(lastEvent))) = 2

\* C8: the vocabulary is never larger than the word count; the counters are
\* the number of tokens and the distinct normalized tokens of the final
\* fragments of the session; every notification reports a diversity in
\* [0,1], and the last one of a handler the quotient of the two, 0 when
\* there is no token.
C8_Diversity ==
  /\ Cardinality(uniqueWords) <= wordCount
  /\ Capable => /\ wordCount = TokenCount(SessFinals)
                /\ uniqueWords = NormalizedTokens(SessFinals)
  /\ \A i \in DOMAIN AnalyticsIn(out) :
       LET d == AnalyticsIn(out)[i].analytics.vocabularyDiversity
       IN d.den >= 1 /\ 0 <= d.num /\ d.num <= d.den
  /\ AnalyticsIn(out) # <<>> =>
       LET d == AnalyticsIn(out)[Len(AnalyticsIn(out))]
                  .analytics.vocabularyDiversity
       IN IF wordCount = 0 THEN d.num = 0
          ELSE d.num * wordCount = Cardinality(uniqueWords) * d.den
\* A notification that reports a diversity strictly between 0 and 1.
C8_Witness ==
  /\ AnalyticsIn(out) # <<>>
  /\ LET d == AnalyticsIn(out)[1].analytics.vocabularyDiversity
     IN d.num = 1 /\ d.den = 2

\* C9: a result event delivers, to the registered transcript handler,
\* exactly one notification, after everything else it delivers; it carries
\* the texts of the final and of the interim fragments of
\* results[resultIndex ..], each concatenated in index order.  No other
\* step delivers a transcript notification.
C9_TranscriptUpdate ==
  /\ (lastOp = "result" /\ onTranscriptUpdate # NoHandler) =>
       /\ Len(TranscriptsIn(out)) = 1
       /\ out[Len(out)].kind = "transcript"
       /\ out[Len(out)].finalTranscript =
            Concat(TextsOf(FinalsOf(Batch(lastEvent))))
       /\ out[Len(out)].interimTranscript =
            Concat(TextsOf(InterimsOf(Batch(lastEvent))))
  /\ lastOp # "result" => TranscriptsIn(out) = <<>>
\* An event whose batch starts past a settled result.
C9_Witness ==
  /\ lastOp = "result" /\ lastEvent.resultIndex = 1
  /\ Len(TranscriptsIn(out)) = 1
  /\ out[Len(out)].interimTranscript = TextHi

\* C10: without a recognition capability every start() and stop() leaves
\* the session, the engine and the handlers as they are, issues no engine
\* request and delivers no notification; the session never gets a
\* capability.
C10_Inert ==
  [][~Capable =>
       /\ ~Capable'
       /\ lastOp' \in {"start", "stop"} =>
            /\ UNCHANGED <<recognition, session, callbacks>>
            /\ requests' = <<>> /\ out' = <<>> /\ ~caught']_vars
\* stop() on a session without a capability: no call counted, no request.
C10_Witness ==
  ~Capable /\ lastOp = "stop" /\ stopCalls = 0 /\ requests = <<>>

\* C11 as stated: a start() or stop() whose engine request throws catches
\* the exception and leaves the flag, the start time, the counters and the
\* vocabulary as they were before the call.
C11_AsClaimed ==
  [][(lastOp' \in {"start", "stop"} /\ caught') =>
       UNCHANGED <<isRecording, startTime, counters>>]_vars

\* The filler occurrences of the phrases, counted by hand: whole words, any
\* case, every configured phrase.
FillerOccurrences(text) ==
  CASE text = TextThink -> 2
    [] text = TextYouKnow -> 1
    [] text = TextKindOf -> 2
    [] text = TextUmbrella -> 0
    [] text = TextUh -> 1
\* The texts of the final fragments a result event processed.
BatchFinals(event) == TextsOf(FinalsOf(Batch(event)))

\* C12: a result event with one final fragment raises the filler count by
\* the number of whole-word, case-insensitive occurrences of the filler
\* phrases in the fragment's raw text, multi-word phrases included; by 2
\* for "um I think this is like really great".
C12_FillerCount ==
  [][(lastOp' = "result" /\ Len(BatchFinals(lastEvent')) = 1) =>
       LET text == BatchFinals(lastEvent')[1]
       IN /\ fillerWordCount' = fillerWordCount + FillerOccurrences(text)
          /\ text = TextThink => fillerWordCount' = fillerWordCount + 2]_vars
\* "um I think this is like really great" processed after "Kind of, LIKE".
C12_Witness ==
  /\ lastOp = "result" /\ BatchFinals(lastEvent) = <<TextThink>>
  /\ SessFinals = <<TextKindOf, TextThink>>
  /\ fillerWordCount = 4

\* w is p / q rounded to the nearest integer, halves upwards (q > 0).
RoundsTo(w, p, q) == 2 * p - q < 2 * w * q /\ 2 * w * q <= 2 * p + q
\* w is the rounded quotient of words and the minutes in elapsedMs.
IsPace(w, words, elapsedMs) ==
  IF elapsedMs = 0 THEN w = (IF words = 0 THEN NaN ELSE Infinity)
  ELSE RoundsTo(w, words * 60000, elapsedMs)

\* C13: every analytics notification, isFinal = false or true, reports as
\* wpm the word count of the final fragments processed since the last
\* accepted start(), divided by the minutes from that start() to the
\* notification and rounded; the quotient is not a number when no time
\* has passed.  10 words and 30 seconds give 20.
C13_Pace ==
  \A i \in DOMAIN AnalyticsIn(out) :
    /\ IsPace(AnalyticsIn(out)[i].analytics.wpm,
              TokenCount(SessFinals), now - startedAt)
    /\ (TokenCount(SessFinals) = 10 /\ now - startedAt = 30000) =>
          AnalyticsIn(out)[i].analytics.wpm = 20
\* The notification of the tenth word, 30 seconds after the start().
C13_Witness ==
  /\ lastOp = "result" /\ SessFinals = <<TextThink, TextYouKnow>>
  /\ wordCount = 10 /\ now - startTime = 30000
  /\ Len(out) = 1 /\ ~out[1].isFinal /\ out[1].analytics.wpm = 20

\* C14: each kind of notification has one handler field; registering B
\* where A was registered leaves B registered, and leaves the handler of
\* the other kind as it is; only a registration changes a handler; every
\* notification is delivered to the handler registered for its kind at
\* that moment, so none goes to A once B has taken its place.
C14_Replace ==
  [][/\ lastOp' = "setAnalyticsUpdateCallback" =>
          /\ UNCHANGED onTranscriptUpdate
          /\ onAnalyticsUpdate = "A" => onAnalyticsUpdate' = "B"
     /\ lastOp' = "setTranscriptUpdateCallback" =>
          /\ UNCHANGED onAnalyticsUpdate
          /\ onTranscriptUpdate = "A" => onTranscriptUpdate' = "B"
     /\ lastOp' \notin {"setAnalyticsUpdateCallback",
                        "setTranscriptUpdateCallback"} => UNCHANGED callbacks
     /\ \A i \in DOMAIN out' :
          /\ out'[i].to = IF out'[i].kind = "analytics"
                            THEN onAnalyticsUpdate' ELSE onTranscriptUpdate'
          /\ out'[i].to # NoHandler]_vars
\* A result event after B replaced A for analytics: one notification to B,
\* one to the transcript handler A.
C14_Witness ==
  /\ lastOp = "result" /\ onAnalyticsUpdate = "B" /\ onTranscriptUpdate = "A"
  /\ Len(out) = 2
  /\ out[1].kind = "analytics" /\ out[1].to = "B"
  /\ out[2].kind = "transcript" /\ out[2].to = "A"

\* C15: the error handler leaves the flag false and requests the engine's
\* stop, delivers nothing and changes no counter; the halt event that
\* follows it requests no restart, leaves the engine idle and delivers the
\* one isFinal = true notification to the registered analytics handler.
\* The counters hold the final fragments processed and nothing else: the
\* fragments delivered as interim before the error left nothing in them.
C15_ForcedStop ==
  [][/\ lastOp' = "error" =>
          /\ ~isRecording' /\ requests' = <<"stop">> /\ out' = <<>>
          /\ UNCHANGED <<counters, startTime, transcriptText>>
          /\ wordCount' = TokenCount(SessFinals')
          /\ uniqueWords' = NormalizedTokens(SessFinals')
     /\ (lastOp = "error" /\ lastOp' = "end") =>
          /\ requests' = <<>> /\ recognition' = "idle" /\ ~isRecording'
          /\ UNCHANGED counters
          /\ onAnalyticsUpdate # NoHandler =>
               /\ Len(out') = 1 /\ out'[1].kind = "analytics"
               /\ out'[1].isFinal
               /\ out'[1].analytics.fillerWordCount = fillerWordCount]_vars
\* An error after a final fragment and then an interim one: the interim
\* fragment was the last one delivered and is in no counter.
C15_Witness ==
  /\ lastOp = "error" /\ ~isRecording /\ requests = <<"stop">>
  /\ recognition = "stopping" /\ stopCalls = 1
  /\ SessFinals = <<TextHi>> /\ wordCount = 2 /\ transcriptText = <<>>

\* C16: stop() changes the flag and nothing else of the session: counters,
\* vocabulary, start time, transcript and handlers stay; a result event
\* that arrives while the flag is false (after stop(), before the halt)
\* accounts its final fragments as any other does and delivers one
\* isFinal = false notification for each to the registered handler.
C16_StopOnlyFlag ==
  [][/\ lastOp' = "stop" =>
          /\ UNCHANGED <<counters, startTime, transcriptText, callbacks>>
          /\ Capable => ~isRecording'
     /\ (lastOp' = "result" /\ ~isRecording) =>
          LET texts == BatchFinals(lastEvent')
          IN /\ ~isRecording'
             /\ wordCount' = wordCount + TokenCount(texts)
             /\ uniqueWords' = uniqueWords \cup NormalizedTokens(texts)
             /\ texts = <<TextUm>> => fillerWordCount' = fillerWordCount + 2
             /\ onAnalyticsUpdate # NoHandler =>
                  Len(InterimNotes') = Len(texts)]_vars
\* A final fragment processed after stop(), on top of an earlier one.
C16_Witness ==
  /\ lastOp = "result" /\ ~isRecording /\ recognition = "stopping"
  /\ stopCalls = 1 /\ BatchFinals(lastEvent) = <<TextUm>>
  /\ SessFinals = <<TextHi, TextUm>> /\ wordCount = 4
  /\ Len(InterimNotes) = 1

\* C17: a result event whose batch holds interim fragments only leaves the
\* word count, the filler count and the vocabulary as they are and delivers
\* no analytics notification; it delivers the transcript notification, with
\* an empty final text and the interim texts, to the registered handler and
\* nothing else.
C17_InterimOnly ==
  [][(lastOp' = "result" /\ FinalsOf(Batch(lastEvent')) = <<>>) =>
       /\ UNCHANGED counters
       /\ AnalyticsIn(out') = <<>>
       /\ Len(out') = IF onTranscriptUpdate = NoHandler THEN 0 ELSE 1
       /\ \A i \in DOMAIN out' :
            /\ out'[i].kind = "transcript"
            /\ out'[i].finalTranscript = <<>>
            /\ out'[i].interimTranscript =
                 Concat(TextsOf(Batch(lastEvent')))]_vars
\* A batch of two interim fragments on top of counted words, both handlers
\* registered: one notification, the transcript one.
C17_Witness ==
  /\ lastOp = "result" /\ Len(Batch(lastEvent)) = 2
  /\ FinalsOf(Batch(lastEvent)) = <<>>
  /\ wordCount = 2 /\ onAnalyticsUpdate # NoHandler
  /\ Len(out) = 1 /\ out[1].kind = "transcript"
  /\ out[1].interimTranscript = TextUm \o TextHi

\* C18: a start() between stop() and the halt event of that stop() (the
\* engine is halting) leaves the flag true; the halt event then finds the
\* flag true and is handled as an unprompted halt: it requests the restart
\* and delivers nothing, so no isFinal = true notification is delivered
\* for the stopped session.  An isFinal = true notification comes only
\* from a halt event that finds the flag false.
C18_StartBeforeHalt ==
  [][/\ (lastOp' = "start" /\ recognition = "stopping") =>
          /\ isRecording' /\ recognition' = "stopping" /\ out' = <<>>
          /\ UNCHANGED sessFinalEmits
     /\ (lastOp' = "end" /\ recognition = "stopping" /\ isRecording) =>
          /\ requests' = <<"start">> /\ recognition' = "started"
          /\ isRecording' /\ out' = <<>>
          /\ UNCHANGED sessFinalEmits
     /\ FinalNotes' # <<>> => (lastOp' = "end" /\ ~isRecording)]_vars
\* start() after stop(), the halt still pending, a handler registered and
\* words counted: the state the pending halt event finds.
C18_Witness ==
  /\ lastOp = "start" /\ caught /\ isRecording /\ recognition = "stopping"
  /\ wordCount = 2 /\ sessFinalEmits = 0 /\ onAnalyticsUpdate # NoHandler

\* C19: a halt event that finds the flag true leaves the flag true and the
\* start time, the counters, the vocabulary and the transcript as they
\* are; so after any number of restarts the start time is still that of
\* the start() and the word count that of all final fragments since.
C19_RestartPreserves ==
  [][(lastOp' = "end" /\ isRecording) =>
       /\ isRecording'
       /\ UNCHANGED <<startTime, counters, transcriptText>>
       /\ startTime' = startedAt'
       /\ wordCount' = TokenCount(SessFinals')
       /\ uniqueWords' = NormalizedTokens(SessFinals')]_vars
\* The second restart of a session with words counted and time elapsed.
C19_Witness ==
  /\ lastOp = "end" /\ isRecording /\ restarts = 2 /\ stopCalls = 0
  /\ recognition = "started" /\ SessFinals = <<TextHi, TextUm>>
  /\ wordCount = 4 /\ startTime = startedAt /\ now > startTime

\* The filler occurrences of a list of texts.
RECURSIVE FillerTotal(_)
FillerTotal(texts) ==
  IF texts = <<>> THEN 0
  ELSE FillersOf[Head(texts)] + FillerTotal(Tail(texts))

\* C20: the notifications of one result event, with an analytics handler
\* registered, are one isFinal = false notification per final fragment of
\* the batch, in index order, and after all of them the transcript
\* notification; the i-th reports the counters of the session's final
\* fragments up to and including the i-th final fragment of the batch.
C20_Order ==
  (lastOp = "result" /\ onAnalyticsUpdate # NoHandler) =>
    LET k == Len(FinalsOf(Batch(lastEvent)))
        n == Len(SessFinals)
    IN /\ Len(AnalyticsIn(out)) = k
       /\ k <= n
       /\ SubSeq(SessFinals, n - k + 1, n) = BatchFinals(lastEvent)
       /\ \A i \in DOMAIN out :
            out[i].kind = (IF i <= k THEN "analytics" ELSE "transcript")
       /\ Len(out) <= k + 1
       /\ \A i \in 1 .. k :
            LET upto == SubSeq(SessFinals, 1, n - k + i)
                a == out[i].analytics
            IN /\ ~out[i].isFinal
               /\ a.fillerWordCount = FillerTotal(upto)
               /\ a.vocabularyDiversity =
                    [num |-> Cardinality(NormalizedTokens(upto)),
                     den |-> TokenCount(upto)]
               /\ IsPace(a.wpm, TokenCount(upto), now - startedAt)
\* A batch of two final fragments, "hi -" and then "Um, um": the first
\* notification reports no filler and 1 word in 2, the second 2 fillers
\* and 2 words in 4, and the transcript notification comes last.
C20_Witness ==
  /\ lastOp = "result" /\ BatchFinals(lastEvent) = <<TextHi, TextUm>>
  /\ Len(out) = 3 /\ out[3].kind = "transcript"
  /\ out[1].analytics.fillerWordCount = 0
  /\ out[1].analytics.vocabularyDiversity = [num |-> 1, den |-> 2]
  /\ out[2].analytics.fillerWordCount = 2
  /\ out[2].analytics.vocabularyDiversity = [num |-> 2, den |-> 4]

====
